---- MODULE Spec2Model ----
(***************************************************************************)
(* The threadiverse crawler.  Three scripts of the repository crawl the    *)
(* federation graph:                                                       *)
(*   "mau"   src/unnamed/part_000 lines 1-182: crawlee BasicCrawler,       *)
(*           qualification by MIN_MAU, output public/v1/instances*.json    *)
(*   "all"   src/unnamed/part_000 lines 184-379: crawlee BasicCrawler,     *)
(*           every discovered server recorded, output all-discovered.json  *)
(*   "pacer" src/cralwer.ts: @tanstack/pacer asyncQueue + lodash memoize   *)
(* Strings that the code inspects character by character (addresses,       *)
(* software names) are sequences of one-character strings.                 *)
(***************************************************************************)
EXTENDS Integers, Sequences, FiniteSets, TLC

VARIABLES
  \* which script runs, and the servers it talks to
  variant, world,
  \* crawlee: RequestQueue, running requestHandler calls, Dataset, pool
  rq, handlers, dataset, pool,
  \* crawl(): position of the async function, the two timers
  mainPc, intervalArmed, timeoutArmed,
  \* write(): the calls in progress, the output files, interval ticks so far
  writers, files, ticks,
  \* history: failures injected so far, dataset when the deadline fired,
  \* keys whose last attempt failed, final write() calls, snapshots taken
  failures, deadlineFired, storeAtDeadline, dropped, finalWrites, snaps,
  \* cralwer.ts: the asyncQueue's pending and active items, the cache of
  \* _.memoize, the KNOWN set, queue() calls per address so far, the debounced
  \* onSettled timer, process.exit called
  pqItems, pqActive, memo, KNOWN, enqueued, debounceArmed, exited,
  \* SpecNorm and SpecFilter
  normImpl, normIn, normOut1, normOut2, normPc,
  linkIn, linkNow, linkOut, linkPc

crawlVars == <<variant, world, rq, handlers, dataset, pool>>
mainVars == <<mainPc, intervalArmed, timeoutArmed>>
writeVars == <<writers, files, ticks>>
histVars == <<failures, deadlineFired, storeAtDeadline, dropped, finalWrites,
              snaps>>
normVars == <<normImpl, normIn, normOut1, normOut2, normPc>>
linkVars == <<linkIn, linkNow, linkOut, linkPc>>
pacerVars == <<pqItems, pqActive, memo, KNOWN, enqueued, debounceArmed, exited>>
vars == <<crawlVars, mainVars, writeVars, histVars, pacerVars, normVars,
          linkVars>>

(***************************************************************************)
(* Bounds of the model.                                                    *)
(***************************************************************************)
\* longest raw string handed to normalizeInstance in SpecNorm
MaxLen == 4
\* minutes of wall-clock time that may pass between process start and the
\* evaluation of a peer link in SpecFilter (the run lasts at most 20)
MaxElapsed == 2

(***************************************************************************)
(* String primitives of the JavaScript runtime.                            *)
(***************************************************************************)
Letters == {"a", "b", "c", "d", "e", "f", "h", "i", "l", "m", "n", "o",
            "p", "s", "t", "y"}
Upper == {"L", "P"}

\* String.prototype.startsWith
startsWith(s, p) == Len(s) >= Len(p) /\ SubSeq(s, 1, Len(p)) = p

\* String.prototype.endsWith
endsWith(s, p) ==
  Len(s) >= Len(p) /\ SubSeq(s, Len(s) - Len(p) + 1, Len(s)) = p

RECURSIVE trimStart(_)
trimStart(s) ==
  IF s # <<>> /\ Head(s) = " " THEN trimStart(Tail(s)) ELSE s

RECURSIVE trimEnd(_)
trimEnd(s) ==
  IF s # <<>> /\ s[Len(s)] = " " THEN trimEnd(SubSeq(s, 1, Len(s) - 1)) ELSE s

\* String.prototype.trim
trim(s) == trimEnd(trimStart(s))

\* String.prototype.toLowerCase, on the characters of the model
lowerChar(c) == CASE c = "L" -> "l" [] c = "P" -> "p" [] OTHER -> c
toLowerCase(s) == [i \in 1..Len(s) |-> lowerChar(s[i])]

\* s.replace(/\/+$/, "")
RECURSIVE stripTrailingSlashes(_)
stripTrailingSlashes(s) ==
  IF s # <<>> /\ s[Len(s)] = "/"
  THEN stripTrailingSlashes(SubSeq(s, 1, Len(s) - 1))
  ELSE s

STR_http == <<"h", "t", "t", "p">>
STR_https_slashes == <<"h", "t", "t", "p", "s", ":", "/", "/">>
STR_http_slashes == <<"h", "t", "t", "p", ":", "/", "/">>
STR_lemmy == <<"l", "e", "m", "m", "y">>
STR_piefed == <<"p", "i", "e", "f", "e", "d">>

(***************************************************************************)
(* Address Normalizer.                                                     *)
(***************************************************************************)
\* part_000 line 20: trim, prefix https:// unless the string starts with
\* "http", strip every trailing slash
normalizeInstance(instance) ==
  LET t == trim(instance)
      u == IF ~startsWith(t, STR_http) THEN STR_https_slashes \o t ELSE t
  IN stripTrailingSlashes(u)

\* cralwer.ts line 28 and part_000 line 211: no trailing-slash strip
normalizeInstance_cralwer(instance) ==
  LET t == trim(instance)
  IN IF ~startsWith(t, STR_http) THEN STR_https_slashes \o t ELSE t

\* a string begins with a URL scheme: ALPHA+ ":" (RFC 3986)
BeginsWithScheme(s) ==
  \E k \in 1..(Len(s) - 1) :
    /\ \A i \in 1..k : s[i] \in Letters
    /\ s[k + 1] = ":"

(***************************************************************************)
(* Recency + Support filter.  Times are minutes; 0 is the moment the       *)
(* process loaded utils/date.ts.                                           *)
(***************************************************************************)
DayMinutes == 1440
WindowDays == 30

Absent == [kind |-> "absent"]
Str(s) == [kind |-> "string", text |-> s]
\* an ISO 8601 string that parseISO reads as minute t
Iso(t) == [kind |-> "iso", t |-> t]
\* a non-empty string that parseISO cannot read (Invalid Date)
NotADate == [kind |-> "garbage"]
\* the empty string
EmptyStr == [kind |-> "empty"]

\* part_000 line 10
isSupportedSoftware(software) ==
  LET s == toLowerCase(trim(software))
  IN s = STR_lemmy \/ s = STR_piefed

\* utils/date.ts line 3: evaluated once, when the module is loaded
ONE_MONTH_AGO == [start |-> 0 - WindowDays * DayMinutes, end |-> 0]

\* the window as it would be if it were taken at each call
dateLessThanOneMonthAgo_atCall(date, now) ==
  /\ date.kind = "iso"
  /\ date.t >= now - WindowDays * DayMinutes
  /\ date.t <= now

\* utils/date.ts line 8: isWithinInterval(parseISO(date), ONE_MONTH_AGO);
\* both ends inclusive, an Invalid Date is in no interval
dateLessThanOneMonthAgo(date) ==
  /\ date.kind = "iso"
  /\ date.t >= ONE_MONTH_AGO.start
  /\ date.t <= ONE_MONTH_AGO.end

\* JavaScript truthiness of an optional string field
Truthy(v) == v.kind \in {"string", "iso", "garbage"}

\* linked.updated ?? linked.published
Coalesce(a, b) == IF a.kind = "absent" THEN b ELSE a

\* part_000 lines 95-98: the predicate of explore's filter
ExploreFilter(linked) ==
  LET updated == Coalesce(linked.updated, linked.published)
  IN /\ Truthy(linked.software)
     /\ isSupportedSoftware(linked.software.text)
     /\ Truthy(updated)
     /\ dateLessThanOneMonthAgo(updated)

(***************************************************************************)
(* The servers.  A world fixes what every server answers; the three worlds *)
(* are the runs the model explores.                                        *)
(***************************************************************************)
HOST_a == <<"a">>
HOST_b == <<"b">>
HOST_c == <<"c">>
Hosts == {HOST_a, HOST_b, HOST_c}

URL_https_a == STR_https_slashes \o HOST_a
URL_http_a == STR_http_slashes \o HOST_a
URL_https_b == STR_https_slashes \o HOST_b
URL_https_c == STR_https_slashes \o HOST_c
\* every uniqueKey a run of the model can meet
Keys == {URL_https_a, URL_http_a, URL_https_b, URL_https_c}

STR_Lemmy == <<"L", "e", "m", "m", "y">>
STR_piefed_padded == <<" ", "p", "i", "e", "f", "e", "d", " ">>
STR_mastodon == <<"m", "a", "s", "t", "o", "d", "o", "n">>
STR_1dot == <<"1", ".">>

\* timestamps of peer links: a day and 31 days before the process started
Recent == Iso(0 - DayMinutes)
Stale == Iso(0 - 31 * DayMinutes)

Link(domain, software, published, updated) ==
  [domain |-> domain, software |-> software, published |-> published,
   updated |-> updated]

\* request errors and task timeouts the environment may inject in one run
MaxFailures == 2
\* the same in World_Flaky, where one server uses up every retry
MaxFlakyFailures == 4

Server(name, version, linked, mau, private) ==
  [name |-> name, version |-> version, linked |-> linked, mau |-> mau,
   private |-> private]

\* spec section 8, end to end: a links to b, both qualify; a also lists
\* itself under http:// and a stale peer c; b lists a and itself as "b/"
World_EndToEnd ==
  [seeds |-> <<URL_https_a>>, faults |-> MaxFailures,
   servers |->
     (HOST_a :> Server("lemmy", <<"3", ".", "0">>,
                       <<Link(HOST_b, Str(STR_lemmy), Absent, Recent),
                         Link(URL_http_a, Str(STR_lemmy), Absent, Recent),
                         Link(HOST_c, Str(STR_lemmy), Recent, Stale)>>,
                       50, FALSE)
      @@ HOST_b :> Server("piefed", <<"1", ".", "2">>,
                          <<Link(HOST_a, Str(STR_Lemmy), Recent, Absent),
                            Link(<<"b", "/">>, Str(STR_piefed_padded),
                                 Absent, Recent)>>,
                          20, FALSE)
      @@ HOST_c :> Server("lemmy", <<"2", ".", "0">>, <<>>, 50, FALSE))]

\* servers that do not qualify: 19 users, lemmy 1.x, private
World_Unqualified ==
  [seeds |-> <<URL_https_a, URL_https_b>>, faults |-> MaxFailures,
   servers |->
     (HOST_a :> Server("lemmy", <<"0", ".", "1", "9">>,
                       <<Link(HOST_b, Str(STR_lemmy), Absent, Recent),
                         Link(HOST_c, Str(STR_piefed), Absent, Recent)>>,
                       19, FALSE)
      @@ HOST_b :> Server("lemmy", <<"1", ".", "4">>,
                          <<Link(HOST_c, Str(STR_piefed), Absent, Recent)>>,
                          50, FALSE)
      @@ HOST_c :> Server("piefed", <<"1", ".", "2">>,
                          <<Link(HOST_a, Str(STR_lemmy), Absent, Recent)>>,
                          50, TRUE))]

\* a peer listed as lemmy whose nodeinfo names another software
World_Unsupported ==
  [seeds |-> <<URL_https_a>>, faults |-> MaxFailures,
   servers |->
     (HOST_a :> Server("lemmy", <<"2", ".", "0">>,
                       <<Link(HOST_b, Str(STR_lemmy), Absent, Recent),
                         Link(HOST_c, Str(STR_mastodon), Absent, Recent),
                         Link(HOST_c, Absent, Absent, Recent),
                         Link(HOST_c, Str(STR_lemmy), Absent, Absent)>>,
                       20, FALSE)
      @@ HOST_b :> Server("mastodon", <<"4", ".", "2">>, <<>>, 50, FALSE)
      @@ HOST_c :> Server("lemmy", <<"2", ".", "0">>, <<>>, 50, FALSE))]

\* two qualifying servers, a linking to b
World_Pair ==
  [seeds |-> <<URL_https_a>>, faults |-> MaxFailures,
   servers |->
     (HOST_a :> Server("lemmy", <<"3", ".", "0">>,
                       <<Link(HOST_b, Str(STR_lemmy), Absent, Recent)>>,
                       50, FALSE)
      @@ HOST_b :> Server("piefed", <<"1", ".", "2">>, <<>>, 20, FALSE)
      @@ HOST_c :> Server("lemmy", <<"2", ".", "0">>, <<>>, 50, FALSE))]

\* one qualifying server whose requests keep failing or taking too long
World_Flaky ==
  [seeds |-> <<URL_https_a>>, faults |-> MaxFlakyFailures,
   servers |->
     (HOST_a :> Server("lemmy", <<"2", ".", "0">>, <<>>, 50, FALSE)
      @@ HOST_b :> Server("lemmy", <<"2", ".", "0">>, <<>>, 50, FALSE)
      @@ HOST_c :> Server("lemmy", <<"2", ".", "0">>, <<>>, 50, FALSE))]

\* the two seeds of cralwer.ts, each listing the other
World_Mutual ==
  [seeds |-> <<URL_https_a, URL_https_b>>, faults |-> MaxFailures,
   servers |->
     (HOST_a :> Server("lemmy", <<"0", ".", "1", "9">>,
                       <<Link(HOST_b, Str(STR_lemmy), Absent, Recent)>>,
                       50, FALSE)
      @@ HOST_b :> Server("lemmy", <<"0", ".", "1", "9">>,
                          <<Link(HOST_a, Str(STR_lemmy), Absent, Recent),
                            Link(HOST_c, Str(STR_piefed), Absent, Recent)>>,
                          50, FALSE)
      @@ HOST_c :> Server("piefed", <<"1", ".", "2">>, <<>>, 50, FALSE))]

\* request errors and task timeouts in World_Cycle
MaxCycleFailures == 1

\* a graph with a cycle and a self-link: a lists itself and b, b lists a and
\* c, and c's nodeinfo names another software
World_Cycle ==
  [seeds |-> <<URL_https_a>>, faults |-> MaxCycleFailures,
   servers |->
     (HOST_a :> Server("lemmy", <<"0", ".", "1", "9">>,
                       <<Link(HOST_a, Str(STR_lemmy), Absent, Recent),
                         Link(HOST_b, Str(STR_piefed), Absent, Recent)>>,
                       50, FALSE)
      @@ HOST_b :> Server("piefed", <<"1", ".", "2">>,
                          <<Link(HOST_a, Str(STR_lemmy), Absent, Recent),
                            Link(HOST_c, Str(STR_lemmy), Absent, Recent)>>,
                          50, FALSE)
      @@ HOST_c :> Server("mastodon", <<"4", ".", "2">>, <<>>, 50, FALSE))]

Worlds == {World_EndToEnd, World_Unqualified, World_Unsupported, World_Flaky}

(***************************************************************************)
(* URL and crawlee primitives.                                             *)
(***************************************************************************)
RECURSIVE UpToSlash(_)
UpToSlash(s) ==
  IF s = <<>> \/ Head(s) = "/" THEN <<>>
  ELSE <<Head(s)>> \o UpToSlash(Tail(s))

\* new URL(instance).host, for http and https URLs
Host(instance) ==
  IF startsWith(instance, STR_https_slashes)
  THEN UpToSlash(SubSeq(instance, 9, Len(instance)))
  ELSE IF startsWith(instance, STR_http_slashes)
       THEN UpToSlash(SubSeq(instance, 8, Len(instance)))
       ELSE <<>>

\* crawlee's uniqueKey of a request URL: protocol, host and the path with
\* one trailing slash removed
UniqueKey(url) ==
  IF url # <<>> /\ url[Len(url)] = "/"
  THEN SubSeq(url, 1, Len(url) - 1)
  ELSE url

\* part_000 line 8
MIN_MAU == 20
\* part_000 line 83 (and crawlee's default in the "all" script)
maxRequestRetries == 3

\* tasks the pool runs at once (the code asks for up to 50)
MaxConcurrency == 2

\* normalizeInstance of the running script
normalizeOf(v, s) ==
  IF v = "mau" THEN normalizeInstance(s) ELSE normalizeInstance_cralwer(s)

NoRequest == [state |-> "absent", retryCount |-> 0, url |-> <<>>, inserts |-> 0]

\* RequestQueue.addRequests: a URL whose uniqueKey the queue has ever held
\* is skipped, another becomes a pending request
RECURSIVE addRequests(_, _)
addRequests(q, urls) ==
  IF urls = <<>> THEN q
  ELSE LET u == Head(urls)
           k == UniqueKey(u)
           q1 == IF q[k].state = "absent"
                 THEN [q EXCEPT ![k] = [state |-> "pending", retryCount |-> 0,
                                        url |-> u, inserts |-> @.inserts + 1]]
                 ELSE q
       IN addRequests(q1, Tail(urls))

\* Array.prototype.filter with the predicate of explore
RECURSIVE SelectLinks(_)
SelectLinks(linked) ==
  IF linked = <<>> THEN <<>>
  ELSE IF ExploreFilter(Head(linked))
       THEN <<Head(linked)>> \o SelectLinks(Tail(linked))
       ELSE SelectLinks(Tail(linked))

\* part_000 lines 93-100: the URLs explore hands to addRequests
explore(v, linked) ==
  LET kept == SelectLinks(linked)
  IN [i \in 1..Len(kept) |-> normalizeOf(v, kept[i].domain)]

\* the server a handler talks to
instanceOf(h) == normalizeOf(variant, h.url)
serverOf(h) == world.servers[Host(instanceOf(h))]

Slots == {h \in handlers : h.slot}

(***************************************************************************)
(* write(): the Snapshot Writer.  A file is a sequence of tokens: the      *)
(* brackets of the JSON array, its records, and the line breaks of the     *)
(* pretty-printed form.                                                    *)
(***************************************************************************)
\* interval ticks in one run (the code ticks every 10 seconds)
MaxTicks == 1

FileNames == {"instances.json", "instances.min.json", "all-discovered.json"}
NoFile == [exists |-> FALSE, data |-> <<>>]

\* the characters of the model in the order of their code units
CodeUnits ==
  <<" ", ".", "/", "0", "1", "2", "3", "4", "9", ":", "L", "P", "a", "b", "c",
    "d", "e", "f", "h", "i", "l", "m", "n", "o", "p", "s", "t", "y">>
codeUnit(c) == CHOOSE i \in 1..Len(CodeUnits) : CodeUnits[i] = c

\* x < y on JavaScript strings
RECURSIVE strLess(_, _)
strLess(x, y) ==
  IF y = <<>> THEN FALSE
  ELSE IF x = <<>> THEN TRUE
  ELSE IF Head(x) = Head(y) THEN strLess(Tail(x), Tail(y))
  ELSE codeUnit(Head(x)) < codeUnit(Head(y))

\* x put into the sorted sequence after every element whose host is not
\* greater
RECURSIVE insertByHost(_, _)
insertByHost(sorted, x) ==
  IF sorted = <<>> THEN <<x>>
  ELSE IF strLess(x.host, Head(sorted).host)
       THEN <<x>> \o sorted
       ELSE <<Head(sorted)>> \o insertByHost(Tail(sorted), x)

\* write() as it would be without the sort
sortBy_none(items) == items

\* part_000 line 155: _.sortBy(items, 'host'), a stable sort
RECURSIVE sortBy(_)
sortBy(items) ==
  IF items = <<>> THEN <<>>
  ELSE insertByHost(sortBy(SubSeq(items, 1, Len(items) - 1)),
                    items[Len(items)])

RECURSIVE indented(_)
indented(items) ==
  IF items = <<>> THEN <<>>
  ELSE <<"\n", Head(items)>> \o indented(Tail(items))

\* part_000 lines 158-159 and 362: JSON.stringify(sorted, null, 2) for
\* instances.json and all-discovered.json, JSON.stringify(sorted) for
\* instances.min.json
stringify(items, file) ==
  IF file = "instances.min.json" THEN <<"[">> \o items \o <<"]">>
  ELSE IF items = <<>> THEN <<"[", "]">>
  ELSE <<"[">> \o indented(items) \o <<"\n", "]">>

\* a write of text at offset 0 of a file that holds data
overwrite(data, text) ==
  text \o SubSeq(data, Len(text) + 1, Len(data))

\* the file a write() call is at
fileOf(v, pc) ==
  IF v = "all" THEN "all-discovered.json"
  ELSE IF pc \in {"open1", "write1"} THEN "instances.json"
  ELSE "instances.min.json"

NewWriter(id, kind) ==
  [id |-> id, kind |-> kind, pc |-> "getData", snap |-> <<>>]

(***************************************************************************)
(* crawl(): the crawlee scripts.                                           *)
(***************************************************************************)
\* every string a run of cralwer.ts can hand to queue()
URL_https_b_slash == STR_https_slashes \o <<"b", "/">>
PKeys == Keys \cup {URL_https_b_slash}

PacerIdle ==
  /\ pqItems = <<>>
  /\ pqActive = <<>>
  /\ memo = [k \in PKeys |-> "none"]
  /\ KNOWN = {}
  /\ enqueued = [k \in PKeys |-> 0]
  /\ debounceArmed = FALSE
  /\ exited = FALSE

NormIdle ==
  /\ normImpl = "part_000"
  /\ normIn = <<>>
  /\ normOut1 = <<>>
  /\ normOut2 = <<>>
  /\ normPc = "idle"

LinkIdle ==
  /\ linkIn = [software |-> Absent, published |-> Absent, updated |-> Absent]
  /\ linkNow = 0
  /\ linkOut = FALSE
  /\ linkPc = "idle"

InitCrawl(v) ==
  /\ variant = v
  /\ world \in Worlds \cup {World_Pair, World_Mutual, World_Cycle}
  /\ PacerIdle
  /\ rq = [k \in Keys |-> NoRequest]
  /\ handlers = {}
  /\ dataset = <<>>
  /\ pool = "idle"
  /\ mainPc = "start"
  /\ intervalArmed = FALSE
  /\ timeoutArmed = FALSE
  /\ failures = 0
  /\ deadlineFired = FALSE
  /\ storeAtDeadline = <<>>
  /\ dropped = {}
  /\ finalWrites = 0
  /\ snaps = {}
  /\ writers = {}
  /\ files = [f \in FileNames |-> NoFile]
  /\ ticks = 0
  /\ NormIdle
  /\ LinkIdle

Init ==
  /\ \E v \in {"mau", "all"} : InitCrawl(v)
  /\ world \in Worlds

\* part_000 lines 162-177: both timers are armed, then crawler.run(seeds)
\* enqueues the seeds and starts the pool
CrawlerRun ==
  /\ mainPc = "start"
  /\ mainPc' = "awaitRun"
  /\ intervalArmed' = TRUE
  /\ timeoutArmed' = TRUE
  /\ rq' = addRequests(rq, world.seeds)
  /\ pool' = "running"
  /\ UNCHANGED <<variant, world, handlers, dataset, histVars, writeVars, normVars,
                 linkVars, pacerVars>>

\* the pool takes a pending request and calls requestHandler, which runs to
\* its first await: the nodeinfo request is on its way
StartTask(k) ==
  /\ pool = "running"
  /\ rq[k].state = "pending"
  /\ Cardinality(Slots) < MaxConcurrency
  /\ rq' = [rq EXCEPT ![k].state = "locked"]
  /\ handlers' = handlers \cup
       {[key |-> k, url |-> rq[k].url, attempt |-> rq[k].retryCount,
         pc |-> "nodeinfo", slot |-> TRUE]}
  /\ UNCHANGED <<variant, world, dataset, pool, mainVars, histVars, writeVars, normVars,
                 linkVars, pacerVars>>

\* the request of a failed call as it would be without the retry limit
rqAfterError_noLimit(h) ==
  [rq EXCEPT ![h.key].state = "pending"]

\* the request of a failed call: crawlee retries it while retryCount is below
\* maxRequestRetries, and marks it handled (failed) after that
rqAfterError(h) ==
  IF rq[h.key].retryCount < maxRequestRetries
  THEN [rq EXCEPT ![h.key].state = "pending", ![h.key].retryCount = @ + 1]
  ELSE [rq EXCEPT ![h.key].state = "handled"]

\* requestHandler returned: the request is marked handled.  A call the pool
\* has given up on (timed out) just ends.
Return(h) ==
  /\ handlers' = handlers \ {h}
  /\ rq' = IF h.slot THEN [rq EXCEPT ![h.key].state = "handled"] ELSE rq
  /\ UNCHANGED dropped

\* an exception leaves requestHandler ("mau"), or is swallowed by the
\* try/catch around processQueueItem's body ("all")
Throw(h) ==
  /\ handlers' = handlers \ {h}
  /\ rq' = IF ~h.slot THEN rq
           ELSE IF variant = "mau" THEN rqAfterError(h)
           ELSE [rq EXCEPT ![h.key].state = "handled"]
  /\ dropped' = IF h.slot /\ (variant # "mau"
                              \/ rq[h.key].retryCount >= maxRequestRetries)
                THEN dropped \cup {h.key}
                ELSE dropped

\* the dispatcher as it would be without the test of the lemmy version
RespondNodeInfo_noVersionTest(h) ==
  /\ h \in handlers
  /\ h.pc = "nodeinfo"
  /\ IF serverOf(h).name \notin {"lemmy", "piefed"}
     THEN Throw(h)
     ELSE /\ handlers' = (handlers \ {h}) \cup {[h EXCEPT !.pc = "federated"]}
          /\ UNCHANGED <<rq, dropped>>
  /\ UNCHANGED <<variant, world, dataset, pool, mainVars, failures,
                 deadlineFired, storeAtDeadline, finalWrites, snaps, writeVars,
                 normVars, linkVars, pacerVars>>

\* the nodeinfo response arrives: nodeInfoSchema accepts lemmy and piefed
\* only; lemmy 1.x ends the handler; every other server is asked for its
\* peer list
RespondNodeInfo(h) ==
  /\ h \in handlers
  /\ h.pc = "nodeinfo"
  /\ IF serverOf(h).name \notin {"lemmy", "piefed"}
     THEN Throw(h)
     ELSE IF serverOf(h).name = "lemmy" /\ startsWith(serverOf(h).version, STR_1dot)
          THEN Return(h)
          ELSE /\ handlers' = (handlers \ {h}) \cup {[h EXCEPT !.pc = "federated"]}
               /\ UNCHANGED <<rq, dropped>>
  /\ UNCHANGED <<variant, world, dataset, pool, mainVars, failures,
                 deadlineFired, storeAtDeadline, finalWrites, snaps, writeVars, normVars,
                 linkVars, pacerVars>>

\* the handler as it would be if explore were left until after qualification
RespondFederated_exploreLater(h) ==
  /\ h \in handlers
  /\ h.pc = "federated"
  /\ handlers' = (handlers \ {h}) \cup {[h EXCEPT !.pc = "site"]}
  /\ UNCHANGED <<variant, world, rq, dataset, pool, mainVars, histVars,
                 writeVars, normVars, linkVars, pacerVars>>

\* the peer list arrives: explore enqueues the admitted peers, then the site
\* metadata is requested
RespondFederated(h) ==
  /\ h \in handlers
  /\ h.pc = "federated"
  /\ \E linked \in {serverOf(h).linked} :
       \E urls \in {explore(variant, linked)} :
         rq' = addRequests(rq, urls)
  /\ handlers' = (handlers \ {h}) \cup {[h EXCEPT !.pc = "site"]}
  /\ UNCHANGED <<variant, world, dataset, pool, mainVars, histVars, writeVars, normVars,
                 linkVars, pacerVars>>

\* part_000 line 120 and 137: the Qualification Filter
qualifies(site) == site.mau >= MIN_MAU /\ ~site.private

\* the site metadata arrives: "mau" pushes the record of a qualifying
\* server, "all" pushes every record
RespondSite(h) ==
  /\ h \in handlers
  /\ h.pc = "site"
  /\ IF variant = "mau"
     THEN IF ~qualifies(serverOf(h))
          THEN Return(h)
          ELSE /\ handlers' = (handlers \ {h}) \cup {[h EXCEPT !.pc = "push"]}
               /\ UNCHANGED <<rq, dropped>>
     ELSE \* Dataset.pushData is called and not awaited: the handler returns
          /\ handlers' = (handlers \ {h}) \cup
                           {[h EXCEPT !.pc = "push", !.slot = FALSE]}
          /\ rq' = IF h.slot THEN [rq EXCEPT ![h.key].state = "handled"] ELSE rq
          /\ UNCHANGED dropped
  /\ UNCHANGED <<variant, world, dataset, pool, mainVars, failures,
                 deadlineFired, storeAtDeadline, finalWrites, snaps, writeVars, normVars,
                 linkVars, pacerVars>>

\* the record requestHandler pushes; the "all" script labels every record
\* lemmy (part_000 lines 320 and 335)
instanceRecord(h) ==
  [url |-> instanceOf(h), host |-> Host(instanceOf(h)),
   software |-> IF variant = "mau" THEN serverOf(h).name ELSE "lemmy"]

\* Dataset.pushData appends the record, and the handler returns
PushData(h) ==
  /\ h \in handlers
  /\ h.pc = "push"
  /\ dataset' = Append(dataset, instanceRecord(h))
  /\ Return(h)
  /\ UNCHANGED <<variant, world, pool, mainVars, failures, deadlineFired,
                 storeAtDeadline, finalWrites, snaps, writeVars, normVars, linkVars, pacerVars>>

\* a failed request as it would be if its error reached crawler.run: the
\* pool stops
FetchFails_stopsPool(h) ==
  /\ h \in handlers
  /\ h.pc \in {"nodeinfo", "federated", "site"}
  /\ failures < world.faults
  /\ failures' = failures + 1
  /\ Throw(h)
  /\ pool' = "aborted"
  /\ UNCHANGED <<variant, world, dataset, mainVars, deadlineFired,
                 storeAtDeadline, finalWrites, snaps, writeVars, normVars,
                 linkVars, pacerVars>>

\* a request of the handler fails (connection, status, JSON, schema)
FetchFails(h) ==
  /\ h \in handlers
  /\ h.pc \in {"nodeinfo", "federated", "site"}
  /\ failures < world.faults
  /\ failures' = failures + 1
  /\ Throw(h)
  /\ UNCHANGED <<variant, world, dataset, pool, mainVars, deadlineFired,
                 storeAtDeadline, finalWrites, snaps, writeVars, normVars, linkVars, pacerVars>>

\* requestHandlerTimeoutSecs pass before the handler returns: crawlee treats
\* the request as failed; the handler's promise chain is not cancelled and
\* goes on without a slot of the pool
TimeoutFires(h) ==
  /\ h \in handlers
  /\ h.slot
  /\ variant = "mau"
  /\ failures < world.faults
  /\ failures' = failures + 1
  /\ handlers' = (handlers \ {h}) \cup {[h EXCEPT !.slot = FALSE]}
  /\ rq' = rqAfterError(h)
  /\ dropped' = IF rq[h.key].retryCount >= maxRequestRetries
                THEN dropped \cup {h.key} ELSE dropped
  /\ UNCHANGED <<variant, world, dataset, pool, mainVars, deadlineFired,
                 storeAtDeadline, finalWrites, snaps, writeVars, normVars, linkVars, pacerVars>>

\* the pool finishes when no request is pending and no task is running
PoolDrained ==
  /\ pool = "running"
  /\ \A k \in Keys : rq[k].state \notin {"pending", "locked"}
  /\ Slots = {}
  /\ pool' = "finished"
  /\ UNCHANGED <<variant, world, rq, handlers, dataset, mainVars, histVars,
                 writeVars, normVars, linkVars, pacerVars>>

\* the deadline callback as it would be if it called write() itself
DeadlineFires_alsoWrites ==
  /\ timeoutArmed
  /\ timeoutArmed' = FALSE
  /\ intervalArmed' = IF variant = "mau" THEN FALSE ELSE intervalArmed
  /\ pool' = IF pool = "running" THEN "aborted" ELSE pool
  /\ deadlineFired' = TRUE
  /\ storeAtDeadline' = dataset
  /\ finalWrites' = finalWrites + 1
  /\ writers' = writers \cup {NewWriter(0, "final")}
  /\ UNCHANGED <<variant, world, rq, handlers, dataset, mainPc, failures,
                 dropped, snaps, files, ticks, normVars, linkVars, pacerVars>>

\* part_000 lines 166-170 ("mau") and 356-358 ("all"): the 20 minute timer.
\* autoscaledPool.abort() resolves the pool's promise; running handlers go on.
DeadlineFires ==
  /\ timeoutArmed
  /\ timeoutArmed' = FALSE
  /\ intervalArmed' = IF variant = "mau" THEN FALSE ELSE intervalArmed
  /\ pool' = IF pool = "running" THEN "aborted" ELSE pool
  /\ deadlineFired' = TRUE
  /\ storeAtDeadline' = dataset
  /\ UNCHANGED <<variant, world, rq, handlers, dataset, mainPc, failures,
                 dropped, finalWrites, snaps, writeVars, normVars, linkVars, pacerVars>>

\* crawl() as it would be if it called write() before it awaits crawler.run
RunResolves_writeFirst ==
  /\ mainPc = "awaitRun"
  /\ mainPc' = "returned"
  /\ finalWrites' = finalWrites + 1
  /\ writers' = writers \cup {NewWriter(0, "final")}
  /\ UNCHANGED <<crawlVars, intervalArmed, timeoutArmed, failures,
                 deadlineFired, storeAtDeadline, dropped, snaps, files, ticks,
                 normVars, linkVars, pacerVars>>

\* part_000 lines 172-180 ("mau") and 369-376 ("all"): crawler.run resolves,
\* the deadline timer is cleared and write() is called once more
RunResolves ==
  /\ mainPc = "awaitRun"
  /\ pool \in {"finished", "aborted"}
  /\ mainPc' = "returned"
  /\ timeoutArmed' = FALSE
  /\ intervalArmed' = IF variant = "all" THEN FALSE ELSE intervalArmed
  /\ finalWrites' = finalWrites + 1
  /\ writers' = writers \cup {NewWriter(0, "final")}
  /\ UNCHANGED <<crawlVars, failures, deadlineFired, storeAtDeadline, dropped,
                 snaps, files, ticks, normVars, linkVars, pacerVars>>

\* part_000 lines 162-164 ("mau") and 365-367 ("all"): the 10 second
\* interval calls write() and does not wait for it
IntervalTick ==
  /\ intervalArmed
  /\ ticks < MaxTicks
  /\ ticks' = ticks + 1
  /\ writers' = writers \cup {NewWriter(ticks + 1, "periodic")}
  /\ UNCHANGED <<crawlVars, mainVars, histVars, files, normVars, linkVars, pacerVars>>

\* write(): dataset.getData() resolves; "mau" sorts the items by host
WriterGetData(w) ==
  /\ w \in writers
  /\ w.pc = "getData"
  /\ LET items == IF variant = "mau" THEN sortBy(dataset) ELSE dataset
     IN /\ writers' = (writers \ {w}) \cup
                        {[w EXCEPT !.pc = "open1", !.snap = items]}
        /\ snaps' = snaps \cup {[kind |-> w.kind, items |-> items]}
  /\ UNCHANGED <<crawlVars, mainVars, files, ticks, failures, deadlineFired,
                 storeAtDeadline, dropped, finalWrites, normVars, linkVars, pacerVars>>

\* fs.writeFile opens its file with flag "w": the file is created or
\* truncated
WriterOpen(w) ==
  /\ w \in writers
  /\ w.pc \in {"open1", "open2"}
  /\ files' = [files EXCEPT ![fileOf(variant, w.pc)] =
                 [exists |-> TRUE, data |-> <<>>]]
  /\ writers' = (writers \ {w}) \cup
       {[w EXCEPT !.pc = IF w.pc = "open1" THEN "write1" ELSE "write2"]}
  /\ UNCHANGED <<crawlVars, mainVars, ticks, histVars, normVars, linkVars, pacerVars>>

\* fs.writeFile writes its string from the start of the file and closes it;
\* "mau" goes on to instances.min.json, and write() returns after that
WriterWrite(w) ==
  /\ w \in writers
  /\ w.pc \in {"write1", "write2"}
  /\ files' = [files EXCEPT ![fileOf(variant, w.pc)].data =
                 overwrite(@, stringify(w.snap, fileOf(variant, w.pc)))]
  /\ writers' = IF variant = "mau" /\ w.pc = "write1"
                THEN (writers \ {w}) \cup {[w EXCEPT !.pc = "open2"]}
                ELSE writers \ {w}
  /\ UNCHANGED <<crawlVars, mainVars, ticks, histVars, normVars, linkVars, pacerVars>>

Next ==
  \/ CrawlerRun
  \/ \E k \in Keys : StartTask(k)
  \/ \E h \in handlers : RespondNodeInfo(h)
  \/ \E h \in handlers : RespondFederated(h)
  \/ \E h \in handlers : RespondSite(h)
  \/ \E h \in handlers : PushData(h)
  \/ \E h \in handlers : FetchFails(h)
  \/ \E h \in handlers : TimeoutFires(h)
  \/ PoolDrained
  \/ DeadlineFires
  \/ RunResolves

\* Spec: the crawl of either crawlee script, up to the final write() call.
\* The write() calls read the Dataset and change nothing of the crawl; their
\* steps are left to SpecWrite.
Spec == Init /\ [][Next]_vars

\* the steps that the pool and the servers take when they can: a request
\* that was sent is answered or fails, a free slot takes a pending request,
\* an idle pool with an empty queue finishes
Progress ==
  \/ CrawlerRun
  \/ \E k \in Keys : StartTask(k)
  \/ \E h \in handlers : RespondNodeInfo(h)
  \/ \E h \in handlers : RespondFederated(h)
  \/ \E h \in handlers : RespondSite(h)
  \/ \E h \in handlers : PushData(h)
  \/ PoolDrained

InitLive ==
  /\ \E v \in {"mau", "all"} : InitCrawl(v)
  /\ world = World_Cycle

\* SpecLive: the crawl of World_Cycle under the fairness of Progress; the
\* deadline timer is not assumed to fire
SpecLive == InitLive /\ [][Next]_vars /\ WF_vars(Progress)

\* SpecWrite: the whole of crawl(), timers and write() calls included, on
\* World_Pair
InitWrite ==
  /\ \E v \in {"mau", "all"} : InitCrawl(v)
  /\ world = World_Pair

NextWrite ==
  \/ Next
  \/ IntervalTick
  \/ \E w \in writers : WriterGetData(w)
  \/ \E w \in writers : WriterOpen(w)
  \/ \E w \in writers : WriterWrite(w)

SpecWrite == InitWrite /\ [][NextWrite]_vars

(***************************************************************************)
(* cralwer.ts: the crawler on @tanstack/pacer's asyncQueue.  The queuer     *)
(* state that a step of the script changes is gathered in one record, so    *)
(* that addItem and tick, which call each other, are operators on it.       *)
(***************************************************************************)
pacerState ==
  [items |-> pqItems, active |-> pqActive, memo |-> memo, known |-> KNOWN,
   running |-> handlers, enqueued |-> enqueued, settled |-> FALSE]

\* AsyncQueuer.tick: while fewer than `concurrency` items are active, the
\* next pending item is taken and fn(item) is called.  fn is the memoized
\* processQueueItem (cralwer.ts line 95): a string it has not seen starts the
\* async function (KNOWN.add, first request sent); a string it has seen
\* yields the cached promise, and the item stays active until that promise
\* is settled.
RECURSIVE tick(_)
tick(st) ==
  IF st.items = <<>> \/ Len(st.active) >= MaxConcurrency THEN st
  ELSE LET item == Head(st.items)
           rest == [st EXCEPT !.items = Tail(@)]
       IN IF st.memo[item] = "none"
          THEN tick([rest EXCEPT
                 !.active = Append(@, item),
                 !.memo[item] = "pending",
                 !.known = @ \cup {item},
                 !.running = @ \cup {[key |-> item, url |-> item, attempt |-> 0,
                                      pc |-> "nodeinfo", slot |-> TRUE]}])
          ELSE IF st.memo[item] = "pending"
               THEN tick([rest EXCEPT !.active = Append(@, item)])
               ELSE tick([rest EXCEPT !.settled = TRUE])

\* AsyncQueuer.addItem, which queue(item) calls (cralwer.ts lines 109, 212,
\* 213): the item is appended to the pending items, whatever they hold
addItem(st, item) ==
  tick([st EXCEPT !.items = Append(@, item), !.enqueued[item] = @ + 1])

RECURSIVE addItems(_, _)
addItems(st, list) ==
  IF list = <<>> THEN st
  ELSE addItems(addItem(st, Head(list)), Tail(list))

RECURSIVE without(_, _)
without(list, item) ==
  IF list = <<>> THEN <<>>
  ELSE IF Head(list) = item THEN without(Tail(list), item)
       ELSE <<Head(list)>> \o without(Tail(list), item)

\* the promise of processQueueItem(item) settles: execute() removes the item
\* from the active items, calls onSettled and ticks
settle(st, h) ==
  tick([st EXCEPT !.memo[h.key] = "settled",
                  !.active = without(@, h.key),
                  !.running = @ \ {h},
                  !.settled = TRUE])

\* the variables take the queuer state a step has produced; a settled item
\* restarts the debounce of onSettled
Commit(st) ==
  /\ pqItems' = st.items
  /\ pqActive' = st.active
  /\ memo' = st.memo
  /\ KNOWN' = st.known
  /\ handlers' = st.running
  /\ enqueued' = st.enqueued
  /\ debounceArmed' = (debounceArmed \/ st.settled)

\* cralwer.ts lines 212-213: the module has loaded, the two seeds are queued
PacerMain ==
  /\ mainPc = "start"
  /\ ~exited
  /\ mainPc' = "loaded"
  /\ Commit(addItems(pacerState, world.seeds))
  /\ UNCHANGED <<variant, world, rq, dataset, pool, intervalArmed, timeoutArmed,
                 writeVars, histVars, exited, normVars, linkVars>>

\* cralwer.ts lines 102-116 and 149-151: the nodeinfo response
P_RespondNodeInfo(h) ==
  /\ ~exited
  /\ h \in handlers
  /\ h.pc = "nodeinfo"
  /\ IF \/ serverOf(h).name \notin {"lemmy", "piefed"}
        \/ (serverOf(h).name = "lemmy"
            /\ startsWith(serverOf(h).version, STR_1dot))
     THEN Commit(settle(pacerState, h))
     ELSE Commit([pacerState EXCEPT
            !.running = (@ \ {h}) \cup {[h EXCEPT !.pc = "federated"]}])
  /\ UNCHANGED <<variant, world, rq, dataset, pool, mainVars, writeVars,
                 histVars, exited, normVars, linkVars>>

\* cralwer.ts lines 104-112, 120-122 and 135-137: explore calls queue() for
\* every admitted peer, then the site request is sent
P_RespondFederated(h) ==
  /\ ~exited
  /\ h \in handlers
  /\ h.pc = "federated"
  /\ Commit(addItems([pacerState EXCEPT
              !.running = (@ \ {h}) \cup {[h EXCEPT !.pc = "site"]}],
            explore(variant, serverOf(h).linked)))
  /\ UNCHANGED <<variant, world, rq, dataset, pool, mainVars, writeVars,
                 histVars, exited, normVars, linkVars>>

\* cralwer.ts lines 122-131 and 137-146: the site response; nothing is
\* recorded, the async function returns
P_RespondSite(h) ==
  /\ ~exited
  /\ h \in handlers
  /\ h.pc = "site"
  /\ Commit(settle(pacerState, h))
  /\ UNCHANGED <<variant, world, rq, dataset, pool, mainVars, writeVars,
                 histVars, exited, normVars, linkVars>>

\* cralwer.ts lines 74-84 and 149-151: a request fails or takes more than
\* five seconds; the catch returns null
P_FetchFails(h) ==
  /\ ~exited
  /\ h \in handlers
  /\ failures < world.faults
  /\ failures' = failures + 1
  /\ Commit(settle(pacerState, h))
  /\ UNCHANGED <<variant, world, rq, dataset, pool, mainVars, writeVars,
                 deadlineFired, storeAtDeadline, dropped, finalWrites, snaps,
                 exited, normVars, linkVars>>

\* cralwer.ts lines 185-189: 500 ms have passed since the last onSettled;
\* peekAllItems() is the active and the pending items
DebounceFires ==
  /\ ~exited
  /\ debounceArmed
  /\ debounceArmed' = FALSE
  /\ exited' = (Len(pqActive) + Len(pqItems) = 0)
  /\ UNCHANGED <<crawlVars, mainVars, writeVars, histVars, pqItems, pqActive,
                 memo, KNOWN, enqueued, normVars, linkVars>>

PacerWorlds == {World_Mutual, World_EndToEnd, World_Unqualified}

InitPacer ==
  /\ InitCrawl("pacer")
  /\ world \in PacerWorlds

NextPacer ==
  \/ PacerMain
  \/ \E h \in handlers : P_RespondNodeInfo(h)
  \/ \E h \in handlers : P_RespondFederated(h)
  \/ \E h \in handlers : P_RespondSite(h)
  \/ \E h \in handlers : P_FetchFails(h)
  \/ DebounceFires

SpecPacer == InitPacer /\ [][NextPacer]_vars

(***************************************************************************)
(* SpecNorm: the Address Normalizer applied to every short raw string,     *)
(* and applied again to its own result.                                    *)
(***************************************************************************)
RawChars == {"h", "t", "p", " ", "/", "a"}

RECURSIVE StringsUpTo(_)
StringsUpTo(n) ==
  IF n = 0 THEN {<<>>}
  ELSE LET shorter == StringsUpTo(n - 1)
       IN shorter \cup {Append(s, c) : s \in shorter, c \in RawChars}

NormImpls == {"part_000", "cralwer"}

Norm(impl, s) ==
  IF impl = "part_000" THEN normalizeInstance(s)
  ELSE normalizeInstance_cralwer(s)

CrawlIdle ==
  /\ variant = "mau"
  /\ world = World_EndToEnd
  /\ rq = [k \in Keys |-> NoRequest]
  /\ handlers = {}
  /\ dataset = <<>>
  /\ pool = "idle"
  /\ mainPc = "idle"
  /\ intervalArmed = FALSE
  /\ timeoutArmed = FALSE
  /\ failures = 0
  /\ deadlineFired = FALSE
  /\ storeAtDeadline = <<>>
  /\ dropped = {}
  /\ finalWrites = 0
  /\ snaps = {}
  /\ writers = {}
  /\ files = [f \in FileNames |-> NoFile]
  /\ ticks = 0
  /\ PacerIdle

InitNorm ==
  /\ CrawlIdle
  /\ normImpl \in NormImpls
  /\ normIn \in StringsUpTo(MaxLen)
  /\ normOut1 = <<>>
  /\ normOut2 = <<>>
  /\ normPc = "start"
  /\ LinkIdle

Normalize ==
  /\ normPc = "start"
  /\ normOut1' = Norm(normImpl, normIn)
  /\ normPc' = "once"
  /\ UNCHANGED <<normImpl, normIn, normOut2, linkVars, crawlVars, mainVars,
                 writeVars, histVars, pacerVars>>

NormalizeAgain ==
  /\ normPc = "once"
  /\ normOut2' = Norm(normImpl, normOut1)
  /\ normPc' = "twice"
  /\ UNCHANGED <<normImpl, normIn, normOut1, linkVars, crawlVars, mainVars,
                 writeVars, histVars, pacerVars>>

NextNorm == Normalize \/ NormalizeAgain

SpecNorm == InitNorm /\ [][NextNorm]_vars

(***************************************************************************)
(* SpecFilter: explore's filter applied to one peer link, evaluated        *)
(* linkNow minutes after the process started.                              *)
(***************************************************************************)
Softwares ==
  {Absent, EmptyStr, Str(STR_lemmy), Str(STR_Lemmy), Str(STR_piefed_padded),
   Str(STR_mastodon)}

\* the timestamps a link may carry when it is evaluated at minute now
Timestamps(now) ==
  {Absent, EmptyStr, NotADate} \cup
  {Iso(t) : t \in {now - 31 * DayMinutes, now - 30 * DayMinutes - 1,
                   now - 30 * DayMinutes, now - 29 * DayMinutes,
                   0 - 30 * DayMinutes, 0, now, now + 1}}

InitFilter ==
  /\ CrawlIdle
  /\ linkNow \in 0..MaxElapsed
  /\ linkIn \in [software : Softwares, published : Timestamps(linkNow),
                  updated : Timestamps(linkNow)]
  /\ linkOut = FALSE
  /\ linkPc = "start"
  /\ NormIdle

EvaluateLink ==
  /\ linkPc = "start"
  /\ linkOut' = ExploreFilter(linkIn)
  /\ linkPc' = "done"
  /\ UNCHANGED <<linkIn, linkNow, writeVars, normVars, crawlVars, mainVars, histVars, pacerVars>>

NextFilter == EvaluateLink

SpecFilter == InitFilter /\ [][NextFilter]_vars

(***************************************************************************)
(* SpecSort: write() of the "mau" script called on every short content of  *)
(* the Result Store, in every order of insertion.                          *)
(***************************************************************************)
\* records in the Result Store of SpecSort
MaxRecords == 3

\* the records requestHandler can push for the addresses of the model
Records ==
  {[url |-> u, host |-> Host(u), software |-> "lemmy"] : u \in Keys}

RECURSIVE SeqsUpTo(_, _)
SeqsUpTo(S, n) ==
  IF n = 0 THEN {<<>>}
  ELSE LET shorter == SeqsUpTo(S, n - 1)
       IN shorter \cup {Append(q, x) : q \in shorter, x \in S}

InitSort ==
  /\ variant = "mau"
  /\ world = World_EndToEnd
  /\ rq = [k \in Keys |-> NoRequest]
  /\ handlers = {}
  /\ dataset \in SeqsUpTo(Records, MaxRecords)
  /\ pool = "finished"
  /\ mainPc = "returned"
  /\ intervalArmed = FALSE
  /\ timeoutArmed = FALSE
  /\ failures = 0
  /\ deadlineFired = FALSE
  /\ storeAtDeadline = <<>>
  /\ dropped = {}
  /\ finalWrites = 1
  /\ snaps = {}
  /\ writers = {NewWriter(0, "final")}
  /\ files = [f \in FileNames |-> NoFile]
  /\ ticks = 0
  /\ PacerIdle
  /\ NormIdle
  /\ LinkIdle

NextSort ==
  \/ \E w \in writers : WriterGetData(w)
  \/ \E w \in writers : WriterOpen(w)
  \/ \E w \in writers : WriterWrite(w)

SpecSort == InitSort /\ [][NextSort]_vars

(***************************************************************************)
(* Claims about the pure functions.                                        *)
(***************************************************************************)
\* C6: for every input string x, normalizeInstance(normalizeInstance(x)) =
\* normalizeInstance(x), and normalizeInstance(x) begins with a URL scheme and
\* does not end with a slash.
C6_NormalizeIdempotentSchemeNoSlash ==
  normPc = "twice" =>
    /\ normOut2 = normOut1
    /\ BeginsWithScheme(normOut1)
    /\ ~endsWith(normOut1, <<"/">>)

\* the timestamp the claim reads: updated, or published only when updated is
\* absent
ClaimTimestamp(linked) == Coalesce(linked.updated, linked.published)

\* C5: a peer link is enqueued by discovery if and only if its software field
\* is present and names lemmy or piefed, and its timestamp lies within the 30
\* days that end at the moment of evaluation.
C5_AdmittedIffSupportedAndRecent ==
  linkPc = "done" =>
    (linkOut <=>
       /\ Truthy(linkIn.software)
       /\ isSupportedSoftware(linkIn.software.text)
       /\ dateLessThanOneMonthAgo_atCall(ClaimTimestamp(linkIn), linkNow))

(***************************************************************************)
(* Claims about the crawl.                                                 *)
(***************************************************************************)
\* the records of the Result Store that carry host
recordsOf(host) == {i \in DOMAIN dataset : dataset[i].host = host}

\* C1: in every reachable state the Result Store holds no two records with
\* the same host.
C1_OneRecordPerHost ==
  \A host \in Hosts : Cardinality(recordsOf(host)) <= 1

\* C2: each normalized address is admitted to the Frontier at most once per
\* run, by requestQueue.addRequests and by queue() of cralwer.ts alike.
C2_AdmittedAtMostOnce ==
  /\ \A k \in Keys : rq[k].inserts <= 1
  /\ \A k \in PKeys : enqueued[k] <= 1

\* C3: every record of the Result Store belongs to a server whose nodeinfo
\* names lemmy or piefed, that has at least 20 active monthly users and that
\* is not private.
C3_RecordsQualify ==
  \A i \in DOMAIN dataset :
    LET server == world.servers[dataset[i].host]
    IN /\ server.name \in {"lemmy", "piefed"}
       /\ server.mau >= 20
       /\ ~server.private

\* the servers whose peer list and site metadata the dispatcher asks for
Dispatched(server) ==
  /\ server.name \in {"lemmy", "piefed"}
  /\ ~(server.name = "lemmy" /\ startsWith(server.version, STR_1dot))

\* the hosts one step of discovery adds to a set of hosts
Discovered(w, hs) ==
  hs \cup {Host(normalizeInstance(l.domain)) :
             l \in UNION {{w.servers[h].linked[i] :
                             i \in {j \in DOMAIN w.servers[h].linked :
                                      ExploreFilter(w.servers[h].linked[j])}} :
                          h \in {x \in hs : Dispatched(w.servers[x])}}}

RECURSIVE Closure(_, _)
Closure(w, hs) ==
  IF Discovered(w, hs) = hs THEN hs ELSE Closure(w, Discovered(w, hs))

\* the hosts reachable from the seeds through admitted peer links
Reachable(w) == Closure(w, {Host(w.seeds[i]) : i \in DOMAIN w.seeds})

\* C4: when every request has succeeded and the deadline has not fired, the
\* final Result Store of the "mau" script holds exactly one record for each
\* reachable server that passes qualification, and no other record.
C4_CleanRunExactlyTheQualifying ==
  (/\ variant = "mau"
   /\ mainPc = "returned"
   /\ pool = "finished"
   /\ handlers = {}
   /\ failures = 0
   /\ ~deadlineFired)
  => \A host \in Hosts :
       Cardinality(recordsOf(host)) =
         IF /\ host \in Reachable(world)
            /\ Dispatched(world.servers[host])
            /\ world.servers[host].mau >= 20
            /\ ~world.servers[host].private
         THEN 1 ELSE 0

\* C10: a request is retried at most 3 times; an address whose last attempt
\* failed has no record in the Result Store and is not in the Frontier again.
C10_DroppedAfterRetries ==
  /\ \A k \in Keys : rq[k].retryCount <= 3
  /\ \A h \in handlers : h.attempt <= 3
  /\ \A k \in dropped :
       /\ rq[k].state = "handled"
       /\ rq[k].inserts = 1
       /\ \A i \in DOMAIN dataset :
            dataset[i].url # normalizeOf(variant, rq[k].url)

(***************************************************************************)
(* Claims about the Snapshot Writer.                                       *)
(***************************************************************************)
contains(items, record) == \E j \in DOMAIN items : items[j] = record

\* C7: when the deadline has fired, the snapshot the final write() call
\* serializes contains every record the Result Store held at the moment the
\* deadline fired.
C7_FinalSnapshotHasRecordsBeforeDeadline ==
  deadlineFired =>
    \A s \in snaps :
      s.kind = "final" =>
        \A i \in DOMAIN storeAtDeadline : contains(s.items, storeAtDeadline[i])

\* the deadline fired with a record in the store and a task in flight, and
\* the final snapshot has been taken
C7_Witness ==
  /\ deadlineFired
  /\ pool = "aborted"
  /\ handlers # {}
  /\ storeAtDeadline # <<>>
  /\ \E s \in snaps : s.kind = "final"

\* a write() call is between the open and the end of its write to file f
beingWritten(f) ==
  \E w \in writers : w.pc \in {"write1", "write2"} /\ fileOf(variant, w.pc) = f

\* C8: an output file that no write() call is writing at this moment holds
\* the complete serialization of one snapshot.
C8_FilesHoldOneWholeSnapshot ==
  \A f \in FileNames :
    (files[f].exists /\ ~beingWritten(f)) =>
      \E s \in snaps : files[f].data = stringify(s.items, f)

\* C9: a run calls the final write() at most once, calls it only after the
\* pool has stopped, and has called it once crawl() is past crawler.run, be
\* the pool drained or aborted by the deadline.
C9_OneFinalWriteAfterPoolStopped ==
  /\ finalWrites <= 1
  /\ finalWrites = 1 => pool \in {"finished", "aborted"}
  /\ (\E w \in writers : w.kind = "final") => pool \in {"finished", "aborted"}
  /\ mainPc = "returned" => finalWrites = 1

\* the deadline ended the run with a task in flight, and the final write()
\* has been called
C9_Witness ==
  /\ mainPc = "returned"
  /\ pool = "aborted"
  /\ deadlineFired
  /\ finalWrites = 1
  /\ \E w \in writers : w.kind = "final"

(***************************************************************************)
(* Claims about the Dispatcher.                                            *)
(***************************************************************************)
\* the server behind a request of the queue
serverOfKey(k) == world.servers[Host(k)]

\* C11: an address whose nodeinfo names a software other than lemmy or piefed
\* is given up after one attempt: with no request error and no timeout in the
\* run, its request is never retried, and it has no record.
C11_UnsupportedDroppedAfterOneAttempt ==
  failures = 0 =>
    \A k \in Keys :
      (rq[k].state # "absent" /\ serverOfKey(k).name \notin {"lemmy", "piefed"})
        => /\ rq[k].retryCount = 0
           /\ \A h \in handlers : h.key = k => h.attempt = 0
           /\ recordsOf(Host(k)) = {}

\* the number a decimal digit stands for
DigitValue(c) ==
  CASE c = "0" -> 0 [] c = "1" -> 1 [] c = "2" -> 2 [] c = "3" -> 3
    [] c = "4" -> 4 [] c = "9" -> 9 [] OTHER -> 0

\* the major version: the number before the first dot
RECURSIVE MajorFrom(_, _)
MajorFrom(version, acc) ==
  IF version = <<>> \/ Head(version) = "." THEN acc
  ELSE MajorFrom(Tail(version), 10 * acc + DigitValue(Head(version)))

MajorVersion(version) == MajorFrom(version, 0)

\* the request of k was handled at its first attempt
handledAtOnce(k) ==
  /\ rq[k].state = "handled"
  /\ rq[k].retryCount = 0
  /\ k \notin dropped

\* every peer that explore admits from the peer list of k's server has been
\* handed to the RequestQueue
peersEnqueued(k) ==
  LET urls == explore(variant, serverOfKey(k).linked)
  IN \A i \in DOMAIN urls : rq[UniqueKey(urls[i])].state # "absent"

\* the records pushed for the address of request k
recordsOfKey(k) ==
  {i \in DOMAIN dataset : dataset[i].url = normalizeOf(variant, rq[k].url)}

\* C12 as stated: for a lemmy server the peer list and the site metadata are
\* asked for exactly when the major version is at least 2.
C12_DiscoveryIffMajorAtLeast2 ==
  /\ \A h \in handlers :
       (serverOf(h).name = "lemmy" /\ h.pc \in {"federated", "site", "push"})
         => MajorVersion(serverOf(h).version) >= 2
  /\ \A k \in Keys :
       (serverOfKey(k).name = "lemmy" /\ handledAtOnce(k)
        /\ MajorVersion(serverOfKey(k).version) >= 2)
         => peersEnqueued(k)

\* C12, amended: for a lemmy server the peer list and the site metadata are
\* asked for exactly when the version string does not begin with "1.": such a
\* server has its admitted peers enqueued and, in the "mau" script, a record
\* if and only if it qualifies; a 1.x server enqueues nothing and has no
\* record.
C12_DiscoveryIffNot1x ==
  /\ \A h \in handlers :
       (serverOf(h).name = "lemmy" /\ h.pc \in {"federated", "site", "push"})
         => ~startsWith(serverOf(h).version, STR_1dot)
  /\ \A k \in Keys :
       (serverOfKey(k).name = "lemmy" /\ rq[k].state # "absent")
         => IF startsWith(serverOfKey(k).version, STR_1dot)
            THEN recordsOfKey(k) = {}
            ELSE handledAtOnce(k) =>
                   /\ peersEnqueued(k)
                   /\ variant = "mau" =>
                        (recordsOfKey(k) # {} <=> qualifies(serverOfKey(k)))

\* a lemmy 2.0 server with a peer list has been handled at its first attempt
\* and recorded
C12_Witness ==
  \E k \in Keys :
    /\ serverOfKey(k).name = "lemmy"
    /\ serverOfKey(k).version = <<"2", ".", "0">>
    /\ handledAtOnce(k)
    /\ serverOfKey(k).linked # <<>>
    /\ recordsOfKey(k) # {}

(***************************************************************************)
(* Claims about failures, the deadline and completion.                     *)
(***************************************************************************)
\* the request of k has failed at least once
hasFailed(k) == rq[k].retryCount > 0 \/ k \in dropped

\* C13: a failed request or a timed-out task of one address does not stop the
\* pool, and an address whose own task did not fail has the outcome of a run
\* without failures, whatever failed elsewhere: its admitted peers are
\* enqueued and it is recorded once if it is to be recorded, and not
\* otherwise.
C13_FailuresAreIsolated ==
  /\ pool = "aborted" => deadlineFired
  /\ ~deadlineFired =>
       \A k \in Keys :
         (handledAtOnce(k) /\ Dispatched(serverOfKey(k))) =>
           /\ peersEnqueued(k)
           /\ IF variant = "mau"
              THEN Cardinality(recordsOfKey(k)) =
                     IF qualifies(serverOfKey(k)) THEN 1 ELSE 0
              ELSE \/ Cardinality(recordsOfKey(k)) = 1
                   \/ (recordsOfKey(k) = {}
                       /\ \E h \in handlers : h.key = k /\ h.pc = "push")

\* one address has failed, and another, handled at once, is recorded; the
\* pool is still running
C13_Witness ==
  /\ pool = "running"
  /\ failures > 0
  /\ \E k1, k2 \in Keys :
       /\ hasFailed(k1)
       /\ k2 # k1
       /\ handledAtOnce(k2)
       /\ recordsOfKey(k2) # {}

\* C14: once the deadline has fired the pool no longer runs, and the work in
\* flight is cancelled with it: the Result Store stays as it was when the
\* deadline fired.
C14_DeadlineCancelsAllWork ==
  deadlineFired =>
    /\ pool # "running"
    /\ pool = "aborted" => dataset = storeAtDeadline

\* a requestHandler call that still has requests to make, and with them
\* peers to enqueue or a record to push
running(h) == h.pc \in {"nodeinfo", "federated", "site"}

\* C15: natural completion (the pool finished, or process.exit in cralwer.ts)
\* happens only with an empty Frontier and no task running.
C15_CompletionOnlyWhenIdle ==
  /\ pool = "finished" =>
       /\ \A h \in handlers : ~running(h)
       /\ \A k \in Keys : rq[k].state \notin {"pending", "locked"}
  /\ exited => (pqItems = <<>> /\ pqActive = <<>> /\ handlers = {})

(***************************************************************************)
(* Claims about the order of a snapshot.                                   *)
(***************************************************************************)
\* no record is followed by one with a smaller host
sortedByHost(items) ==
  \A i \in 1..(Len(items) - 1) : ~strLess(items[i + 1].host, items[i].host)

\* how often record x occurs in items
occurrences(items, x) == Cardinality({i \in DOMAIN items : items[i] = x})

\* C16: the sequence a write() call of the "mau" script serializes is sorted
\* ascending by host and holds exactly the records of the Result Store, and
\* the files it has written hold that sequence.
C16_SnapshotSortedByHost ==
  /\ \A s \in snaps :
       /\ sortedByHost(s.items)
       /\ Len(s.items) = Len(dataset)
       /\ \A x \in Records : occurrences(s.items, x) = occurrences(dataset, x)
  /\ \A f \in {"instances.json", "instances.min.json"} :
       (files[f].exists /\ ~beingWritten(f)) =>
         \E s \in snaps : files[f].data = stringify(s.items, f)

\* a store whose records were inserted out of order has been written
C16_Witness ==
  /\ Len(dataset) >= 3
  /\ ~sortedByHost(dataset)
  /\ files["instances.min.json"].exists
  /\ writers = {}

(***************************************************************************)
(* Claims about the clock of the recency window.                           *)
(***************************************************************************)
\* C17: the recency window moves with the clock: a supported link dated
\* after the process started and not after its evaluation is admitted, and a
\* link more than 30 days old at its evaluation is refused.
C17_WindowMovesWithClock ==
  (/\ linkPc = "done"
   /\ Truthy(linkIn.software)
   /\ isSupportedSoftware(linkIn.software.text)
   /\ ClaimTimestamp(linkIn).kind = "iso")
  => LET t == ClaimTimestamp(linkIn).t
     IN /\ (0 < t /\ t <= linkNow) => linkOut
        /\ t < linkNow - WindowDays * DayMinutes => ~linkOut

C19_TimersDisarmedAfterFinalWrite ==
  mainPc = "returned" => (~intervalArmed /\ ~timeoutArmed)

\* C20: a handler that has asked for the site metadata has already enqueued
\* the admitted peers of its server; so has a server handled at its first
\* attempt, recorded or not; and no address is inserted into the
\* RequestQueue twice.
C20_DiscoveryBeforeQualification ==
  /\ \A h \in handlers :
       h.pc \in {"site", "push"} =>
         LET urls == explore(variant, serverOf(h).linked)
         IN \A i \in DOMAIN urls : rq[UniqueKey(urls[i])].state # "absent"
  /\ \A k \in Keys :
       (handledAtOnce(k) /\ Dispatched(serverOfKey(k))) => peersEnqueued(k)
  /\ \A k \in Keys : rq[k].inserts <= 1

\* a server with 19 users has been handled without a record, and the peer
\* that only it lists is in the RequestQueue; another request has been retried
C20_Witness ==
  /\ variant = "mau"
  /\ world = World_Unqualified
  /\ handledAtOnce(URL_https_a)
  /\ recordsOf(HOST_a) = {}
  /\ rq[URL_https_c].state # "absent"
  /\ rq[URL_https_c].retryCount > 0

====
